---- MODULE Spec2Model ----
(***************************************************************************)
(* Model of the Photo Analyzer -> YOLO dataset converter                   *)
(* (src/app_to_yolo_converter.py, class AppDataToYOLO).                    *)
(*                                                                         *)
(* The specifications share the variables:                                 *)
(*   Spec           the conversion run, convert_app_data, step by step,    *)
(*                  and validate_dataset of the trainer on its output      *)
(*                  (src/train_norwegian_package_detector.py);             *)
(*   SpecScore      calls of calculate_package_detection_score;            *)
(*   SpecLabel      calls of create_yolo_label on one record;              *)
(*   SpecLetterbox  calls of optimize_image_for_yolo on one image;         *)
(*   SpecTrainer    the loop body of CustomYOLOTrainer._process_photos     *)
(*                  (src/train_custom_yolo.py) on one photo.               *)
(*                                                                         *)
(* Conventions.  A Python dict is a function whose DOMAIN is its key set,  *)
(* so a missing key is a field that is not in the DOMAIN.  A score is kept *)
(* in hundredths (1.0 is 100, 0.05 is 5).  A label file is the sequence of *)
(* its lines, a line the sequence of its five space-separated fields;      *)
(* FileText gives the characters of the file.                              *)
(***************************************************************************)
EXTENDS Integers, Sequences, FiniteSets, TLC

VARIABLES
    pc,               \* position of the running call
    manifest,         \* state of <app_data>/manifest.json
    nphotos,          \* len(manifest.get('photos', []))
    i,                \* loop index of convert_app_data
    photo_data,       \* the record being processed
    split,            \* split of the record being processed
    img,              \* the decoded source image
    train_count,
    val_count,
    skipped_count,
    dirs,             \* directories under the output root
    images,           \* images[s]: stems of the files of images/<s>
    labels,           \* labels[s]: stem -> text of the files of labels/<s>
    dataset_yaml,     \* the descriptor file, NoFile when absent
    result,           \* what the running call returned or raised
    attempted,        \* history: the manifest indices handed to process_photo
    assigned,         \* history: the split each of them was given
    label_file,       \* SpecLabel: what create_yolo_label left and whether it raised
    detected_objects, \* argument of calculate_package_detection_score
    score,            \* its return value
    letterboxed       \* SpecLetterbox: the results of optimize_image_for_yolo

vars == <<pc, manifest, nphotos, i, photo_data, split, img, train_count,
          val_count, skipped_count, dirs, images, labels, dataset_yaml,
          result, attempted, assigned, label_file, detected_objects, score,
                   letterboxed>>

convertVars == <<manifest, nphotos, i, split, img, train_count, val_count,
                 skipped_count, dirs, images, labels, dataset_yaml,
                 result, attempted, assigned>>

----------------------------------------------------------------------------
(* Bounds of the model *)

MaxPhotos == 6     \* longest manifest
MaxCount == 2      \* largest detection count of one class
MaxBoxes == 2      \* most bounding boxes of one record

----------------------------------------------------------------------------
(* The class table, __init__ *)

target_classes ==
    << "no_objects", "pakke", "postkasse", "etikett", "postkasseskilt",
       "pakke_i_postkasse", "pakke_ved_inngangsparti", "inngangsparti" >>

Classes == { target_classes[k] : k \in 1..Len(target_classes) }

\* list.index: the zero-based position of the first occurrence
index(name) ==
    (CHOOSE k \in 1..Len(target_classes) :
        /\ target_classes[k] = name
        /\ \A j \in 1..(k - 1) : target_classes[j] # name) - 1

\* dict.get(key, default)
get(d, key, default) == IF key \in DOMAIN d THEN d[key] ELSE default

----------------------------------------------------------------------------
(* calculate_package_detection_score *)

\* faulty variant: the branches of lines 73 and 75 in the other order
calculate_package_detection_score_swapped(d) ==
    LET no_objects == get(d, "no_objects", 0)
        pakke == get(d, "pakke", 0)
        postkasse == get(d, "postkasse", 0)
        etikett == get(d, "etikett", 0)
        postkasseskilt == get(d, "postkasseskilt", 0)
        pakke_i_postkasse == get(d, "pakke_i_postkasse", 0)
        pakke_ved_inngangsparti == get(d, "pakke_ved_inngangsparti", 0)
        inngangsparti == get(d, "inngangsparti", 0)
    IN  IF no_objects > 0 THEN 0
        ELSE IF pakke > 0 /\ postkasse > 0 /\ etikett > 0 /\ postkasseskilt > 0 THEN 100
        ELSE IF pakke_i_postkasse > 0 /\ etikett > 0 /\ postkasseskilt > 0 THEN 100
        ELSE IF pakke_ved_inngangsparti > 0 THEN 100
        ELSE IF pakke > 0 /\ inngangsparti > 0 THEN 100
        ELSE IF etikett > 0 /\ postkasseskilt > 0 THEN 80
        ELSE IF pakke > 0 /\ postkasseskilt > 0 THEN 60
        ELSE IF pakke > 0 /\ postkasse > 0 /\ postkasseskilt > 0 THEN 70
        ELSE IF pakke > 0 /\ postkasse > 0 /\ etikett > 0 THEN 50
        ELSE IF inngangsparti > 0 THEN 50
        ELSE IF pakke > 0 /\ postkasse > 0 THEN 25
        ELSE IF postkasse > 0 /\ postkasseskilt > 0 THEN 25
        ELSE IF postkasseskilt > 0 THEN 20
        ELSE IF pakke > 0 THEN 10
        ELSE IF postkasse > 0 THEN 10
        ELSE IF etikett > 0 THEN 5
        ELSE 0

\* faulty variant: the branch of line 61 left out
calculate_package_detection_score_no_guard(d) ==
    LET pakke == get(d, "pakke", 0)
        postkasse == get(d, "postkasse", 0)
        etikett == get(d, "etikett", 0)
        postkasseskilt == get(d, "postkasseskilt", 0)
        pakke_i_postkasse == get(d, "pakke_i_postkasse", 0)
        pakke_ved_inngangsparti == get(d, "pakke_ved_inngangsparti", 0)
        inngangsparti == get(d, "inngangsparti", 0)
    IN  IF pakke > 0 /\ postkasse > 0 /\ etikett > 0 /\ postkasseskilt > 0 THEN 100
        ELSE IF pakke_i_postkasse > 0 /\ etikett > 0 /\ postkasseskilt > 0 THEN 100
        ELSE IF pakke_ved_inngangsparti > 0 THEN 100
        ELSE IF pakke > 0 /\ inngangsparti > 0 THEN 100
        ELSE IF etikett > 0 /\ postkasseskilt > 0 THEN 80
        ELSE IF pakke > 0 /\ postkasse > 0 /\ postkasseskilt > 0 THEN 70
        ELSE IF pakke > 0 /\ postkasseskilt > 0 THEN 60
        ELSE IF pakke > 0 /\ postkasse > 0 /\ etikett > 0 THEN 50
        ELSE IF inngangsparti > 0 THEN 50
        ELSE IF pakke > 0 /\ postkasse > 0 THEN 25
        ELSE IF postkasse > 0 /\ postkasseskilt > 0 THEN 25
        ELSE IF postkasseskilt > 0 THEN 20
        ELSE IF pakke > 0 THEN 10
        ELSE IF postkasse > 0 THEN 10
        ELSE IF etikett > 0 THEN 5
        ELSE 0

\* faulty variant: the branch of lines 80-81 stands before that of line 72
calculate_package_detection_score_low_first(d) ==
    LET no_objects == get(d, "no_objects", 0)
        pakke == get(d, "pakke", 0)
        postkasse == get(d, "postkasse", 0)
        etikett == get(d, "etikett", 0)
        postkasseskilt == get(d, "postkasseskilt", 0)
        pakke_i_postkasse == get(d, "pakke_i_postkasse", 0)
        pakke_ved_inngangsparti == get(d, "pakke_ved_inngangsparti", 0)
        inngangsparti == get(d, "inngangsparti", 0)
    IN  IF no_objects > 0 THEN 0
        ELSE IF pakke > 0 /\ postkasse > 0 /\ etikett > 0 /\ postkasseskilt > 0 THEN 100
        ELSE IF pakke_i_postkasse > 0 /\ etikett > 0 /\ postkasseskilt > 0 THEN 100
        ELSE IF pakke_ved_inngangsparti > 0 THEN 100
        ELSE IF pakke > 0 /\ inngangsparti > 0 THEN 100
        ELSE IF etikett > 0 /\ postkasseskilt > 0 THEN 80
        ELSE IF pakke > 0 /\ postkasse > 0 THEN 25
        ELSE IF pakke > 0 /\ postkasse > 0 /\ postkasseskilt > 0 THEN 70
        ELSE IF pakke > 0 /\ postkasseskilt > 0 THEN 60
        ELSE IF pakke > 0 /\ postkasse > 0 /\ etikett > 0 THEN 50
        ELSE IF inngangsparti > 0 THEN 50
        ELSE IF postkasse > 0 /\ postkasseskilt > 0 THEN 25
        ELSE IF postkasseskilt > 0 THEN 20
        ELSE IF pakke > 0 THEN 10
        ELSE IF postkasse > 0 THEN 10
        ELSE IF etikett > 0 THEN 5
        ELSE 0

\* faulty variant: the branch of line 88 asks for more than one pakke
calculate_package_detection_score_two_parcels(d) ==
    LET no_objects == get(d, "no_objects", 0)
        pakke == get(d, "pakke", 0)
        postkasse == get(d, "postkasse", 0)
        etikett == get(d, "etikett", 0)
        postkasseskilt == get(d, "postkasseskilt", 0)
        pakke_i_postkasse == get(d, "pakke_i_postkasse", 0)
        pakke_ved_inngangsparti == get(d, "pakke_ved_inngangsparti", 0)
        inngangsparti == get(d, "inngangsparti", 0)
    IN  IF no_objects > 0 THEN 0
        ELSE IF pakke > 0 /\ postkasse > 0 /\ etikett > 0 /\ postkasseskilt > 0 THEN 100
        ELSE IF pakke_i_postkasse > 0 /\ etikett > 0 /\ postkasseskilt > 0 THEN 100
        ELSE IF pakke_ved_inngangsparti > 0 THEN 100
        ELSE IF pakke > 0 /\ inngangsparti > 0 THEN 100
        ELSE IF etikett > 0 /\ postkasseskilt > 0 THEN 80
        ELSE IF pakke > 0 /\ postkasse > 0 /\ postkasseskilt > 0 THEN 70
        ELSE IF pakke > 0 /\ postkasseskilt > 0 THEN 60
        ELSE IF pakke > 0 /\ postkasse > 0 /\ etikett > 0 THEN 50
        ELSE IF inngangsparti > 0 THEN 50
        ELSE IF pakke > 0 /\ postkasse > 0 THEN 25
        ELSE IF postkasse > 0 /\ postkasseskilt > 0 THEN 25
        ELSE IF postkasseskilt > 0 THEN 20
        ELSE IF pakke > 1 THEN 10
        ELSE IF postkasse > 0 THEN 10
        ELSE IF etikett > 0 THEN 5
        ELSE 0

\* lines 46-94: the counts are read with a default of 0, then the first
\* branch whose condition holds gives the value
calculate_package_detection_score(d) ==
    LET no_objects == get(d, "no_objects", 0)
        pakke == get(d, "pakke", 0)
        postkasse == get(d, "postkasse", 0)
        etikett == get(d, "etikett", 0)
        postkasseskilt == get(d, "postkasseskilt", 0)
        pakke_i_postkasse == get(d, "pakke_i_postkasse", 0)
        pakke_ved_inngangsparti == get(d, "pakke_ved_inngangsparti", 0)
        inngangsparti == get(d, "inngangsparti", 0)
    IN  IF no_objects > 0 THEN 0
        ELSE IF pakke > 0 /\ postkasse > 0 /\ etikett > 0 /\ postkasseskilt > 0 THEN 100
        ELSE IF pakke_i_postkasse > 0 /\ etikett > 0 /\ postkasseskilt > 0 THEN 100
        ELSE IF pakke_ved_inngangsparti > 0 THEN 100
        ELSE IF pakke > 0 /\ inngangsparti > 0 THEN 100
        ELSE IF etikett > 0 /\ postkasseskilt > 0 THEN 80
        ELSE IF pakke > 0 /\ postkasse > 0 /\ postkasseskilt > 0 THEN 70
        ELSE IF pakke > 0 /\ postkasseskilt > 0 THEN 60
        ELSE IF pakke > 0 /\ postkasse > 0 /\ etikett > 0 THEN 50
        ELSE IF inngangsparti > 0 THEN 50
        ELSE IF pakke > 0 /\ postkasse > 0 THEN 25
        ELSE IF postkasse > 0 /\ postkasseskilt > 0 THEN 25
        ELSE IF postkasseskilt > 0 THEN 20
        ELSE IF pakke > 0 THEN 10
        ELSE IF postkasse > 0 THEN 10
        ELSE IF etikett > 0 THEN 5
        ELSE 0

\* faulty variant: the branches of lines 72 and 74 have changed places
taken_branch_swapped(d) ==
    LET no_objects == get(d, "no_objects", 0)
        pakke == get(d, "pakke", 0)
        postkasse == get(d, "postkasse", 0)
        etikett == get(d, "etikett", 0)
        postkasseskilt == get(d, "postkasseskilt", 0)
        pakke_i_postkasse == get(d, "pakke_i_postkasse", 0)
        pakke_ved_inngangsparti == get(d, "pakke_ved_inngangsparti", 0)
        inngangsparti == get(d, "inngangsparti", 0)
    IN  IF no_objects > 0 THEN 1
        ELSE IF pakke > 0 /\ postkasse > 0 /\ etikett > 0 /\ postkasseskilt > 0 THEN 2
        ELSE IF pakke_i_postkasse > 0 /\ etikett > 0 /\ postkasseskilt > 0 THEN 3
        ELSE IF pakke_ved_inngangsparti > 0 THEN 4
        ELSE IF pakke > 0 /\ inngangsparti > 0 THEN 5
        ELSE IF etikett > 0 /\ postkasseskilt > 0 THEN 6
        ELSE IF pakke > 0 /\ postkasseskilt > 0 THEN 8
        ELSE IF pakke > 0 /\ postkasse > 0 /\ postkasseskilt > 0 THEN 7
        ELSE IF pakke > 0 /\ postkasse > 0 /\ etikett > 0 THEN 9
        ELSE IF inngangsparti > 0 THEN 10
        ELSE IF pakke > 0 /\ postkasse > 0 THEN 11
        ELSE IF postkasse > 0 /\ postkasseskilt > 0 THEN 12
        ELSE IF postkasseskilt > 0 THEN 13
        ELSE IF pakke > 0 THEN 14
        ELSE IF postkasse > 0 THEN 15
        ELSE IF etikett > 0 THEN 16
        ELSE 17

\* the branch of the chain of lines 60-94 that returns: 1 for the if of
\* line 60, 2..16 for the elifs in order, 17 for the else
taken_branch(d) ==
    LET no_objects == get(d, "no_objects", 0)
        pakke == get(d, "pakke", 0)
        postkasse == get(d, "postkasse", 0)
        etikett == get(d, "etikett", 0)
        postkasseskilt == get(d, "postkasseskilt", 0)
        pakke_i_postkasse == get(d, "pakke_i_postkasse", 0)
        pakke_ved_inngangsparti == get(d, "pakke_ved_inngangsparti", 0)
        inngangsparti == get(d, "inngangsparti", 0)
    IN  IF no_objects > 0 THEN 1
        ELSE IF pakke > 0 /\ postkasse > 0 /\ etikett > 0 /\ postkasseskilt > 0 THEN 2
        ELSE IF pakke_i_postkasse > 0 /\ etikett > 0 /\ postkasseskilt > 0 THEN 3
        ELSE IF pakke_ved_inngangsparti > 0 THEN 4
        ELSE IF pakke > 0 /\ inngangsparti > 0 THEN 5
        ELSE IF etikett > 0 /\ postkasseskilt > 0 THEN 6
        ELSE IF pakke > 0 /\ postkasse > 0 /\ postkasseskilt > 0 THEN 7
        ELSE IF pakke > 0 /\ postkasseskilt > 0 THEN 8
        ELSE IF pakke > 0 /\ postkasse > 0 /\ etikett > 0 THEN 9
        ELSE IF inngangsparti > 0 THEN 10
        ELSE IF pakke > 0 /\ postkasse > 0 THEN 11
        ELSE IF postkasse > 0 /\ postkasseskilt > 0 THEN 12
        ELSE IF postkasseskilt > 0 THEN 13
        ELSE IF pakke > 0 THEN 14
        ELSE IF postkasse > 0 THEN 15
        ELSE IF etikett > 0 THEN 16
        ELSE 17

----------------------------------------------------------------------------
(* Text formatting *)

DigitChars == << "0", "1", "2", "3", "4", "5", "6", "7", "8", "9" >>

\* str(n) of a natural number
RECURSIVE IntStr(_)
IntStr(n) ==
    IF n < 10 THEN DigitChars[n + 1]
    ELSE IntStr(n \div 10) \o DigitChars[(n % 10) + 1]

\* the last `width` decimal digits of n, zero padded
RECURSIVE Padded(_, _)
Padded(n, width) ==
    IF width = 0 THEN ""
    ELSE Padded(n \div 10, width - 1) \o DigitChars[(n % 10) + 1]

\* the least u >= 0 with n8 < 5 * 2^(u + 1)
RECURSIVE BinaryOrder(_, _, _)
BinaryOrder(n8, u, bound) ==
    IF n8 < bound THEN u ELSE BinaryOrder(n8, u + 1, 2 * bound)

\* Which way the double nearest to num/den lies, for den = 5 * 2^j (640 and
\* 1280 are): 0 when num/den is a double, 1 or 2 when the double is below
\* it, 3 or 4 when above.  It is the residue mod 5 of num * 2^E, E being the
\* exponent that brings num/5 to 53 significant bits.
DoubleResidue(num) ==
    LET u == BinaryOrder(8 * num, 0, 10)
        E == (55 - u) % 4
    IN  ((num % 5) * << 1, 2, 4, 3 >>[E + 1]) % 5

\* f"{num/den:.6f}" for num >= 0 and den = 5 * 2^j: num/den is rounded to a
\* double by the division, and the exact decimal value of this double is
\* printed with 6 decimal places, rounded to nearest, a tie going to the even
\* digit.  The double differs from num/den by less than any gap that matters
\* except when num/den lies exactly half way between two 6-digit values.
Fmt6(num, den) ==
    LET whole == num \div den
        rest == (num % den) * 1000000
        low == rest \div den
        twice == 2 * (rest % den)
        res == DoubleResidue(num)
        up == \/ twice > den
              \/ /\ twice = den
                 /\ IF res = 0 THEN low % 2 = 1 ELSE res >= 3
        micro == whole * 1000000 + low + (IF up THEN 1 ELSE 0)
    IN  IntStr(micro \div 1000000) \o "." \o Padded(micro % 1000000, 6)

----------------------------------------------------------------------------
(* create_yolo_label *)

\* JSON null
None == "<None>"

\* the truth value of photo_data.get('boundingBoxes'): a missing key gives
\* None, and None and [] are false
HasBoxes(pd) ==
    /\ "boundingBoxes" \in DOMAIN pd
    /\ pd.boundingBoxes # << >>

\* the fields of the line of one box with a known label, lines 224-232
BoxLine(bbox, w, h) ==
    << IntStr(index(bbox.label)),
       Fmt6(2 * bbox.x + bbox.width, 2 * w),
       Fmt6(2 * bbox.y + bbox.height, 2 * h),
       Fmt6(bbox.width, w),
       Fmt6(bbox.height, h) >>

\* the for loop of line 222 from box k on: the lines written, and whether
\* bbox['label'] raised KeyError, which ends the loop
RECURSIVE BoxLoop(_, _, _, _)
BoxLoop(bbs, k, w, h) ==
    IF k > Len(bbs) THEN [lines |-> << >>, raised |-> FALSE]
    ELSE IF "label" \notin DOMAIN bbs[k] THEN [lines |-> << >>, raised |-> TRUE]
    ELSE LET tail == BoxLoop(bbs, k + 1, w, h)
         IN  IF bbs[k].label \in Classes
             THEN [lines |-> << BoxLine(bbs[k], w, h) >> \o tail.lines,
                   raised |-> tail.raised]
             ELSE tail

\* the else branch, lines 235-242
WholeImageLine(pd) ==
    LET label == get(pd, "label", "no_objects")
    IN  IF label \in Classes
        THEN << IntStr(index(label)), "0.5", "0.5", "1.0", "1.0" >>
        ELSE << "0", "0.5", "0.5", "1.0", "1.0" >>

\* faulty variant: the whole-image line is written whenever no box line was
\* (as _process_photos of train_custom_yolo.py does)
create_yolo_label_fallback_when_no_line(pd, img_shape) ==
    LET h == img_shape[1]
        w == img_shape[2]
        loop == IF HasBoxes(pd) THEN BoxLoop(pd.boundingBoxes, 1, w, h)
                ELSE [lines |-> << >>, raised |-> FALSE]
    IN  IF loop.lines = << >> /\ ~loop.raised
        THEN [lines |-> << WholeImageLine(pd) >>, raised |-> FALSE]
        ELSE loop

\* faulty variant: a record label that is no class of the table writes
\* nothing, as a box with such a label does
create_yolo_label_unknown_dropped(pd, img_shape) ==
    LET h == img_shape[1]
        w == img_shape[2]
    IN  IF HasBoxes(pd)
        THEN BoxLoop(pd.boundingBoxes, 1, w, h)
        ELSE IF get(pd, "label", "no_objects") \in Classes
             THEN [lines |-> << WholeImageLine(pd) >>, raised |-> FALSE]
             ELSE [lines |-> << >>, raised |-> FALSE]

\* create_yolo_label: the lines the label file holds when the call ends (open
\* with 'w' creates the file, and the with block closes it also when the
\* body raises), and whether the call raised
create_yolo_label(pd, img_shape) ==
    LET h == img_shape[1]
        w == img_shape[2]
    IN  IF HasBoxes(pd)
        THEN BoxLoop(pd.boundingBoxes, 1, w, h)
        ELSE [lines |-> << WholeImageLine(pd) >>, raised |-> FALSE]

\* the characters of a label file: each line is written as its five fields
\* separated by one space and ended by a newline
RECURSIVE FileText(_)
FileText(lines) ==
    IF lines = << >> THEN ""
    ELSE lines[1][1] \o " " \o lines[1][2] \o " " \o lines[1][3] \o " "
            \o lines[1][4] \o " " \o lines[1][5] \o "\n"
            \o FileText(Tail(lines))

----------------------------------------------------------------------------
(* optimize_image_for_yolo and enhance_for_iphone_photos *)

target_size == 640

\* the fill value of the canvas, line 191
pad_value == 114

\* Float arithmetic of lines 184-185.  target_size / w and target_size / h
\* are float64 quotients, scale is the smaller one, the quotient by the
\* longer side m, and w * scale is rounded to a float64 again before int()
\* truncates it.  The operators below give the exact result with small
\* integers, for sides up to 4096.
RECURSIVE Pow2(_)
Pow2(n) == IF n = 0 THEN 1 ELSE 2 * Pow2(n - 1)

\* 2^n mod m, by squaring
RECURSIVE Pow2Mod(_, _)
Pow2Mod(n, m) ==
    IF n = 0 THEN 1 % m
    ELSE LET half == Pow2Mod(n \div 2, m)
         IN  (half * half * (IF n % 2 = 1 THEN 2 ELSE 1)) % m

\* the binary exponent a of target_size / m, searched from a:
\* 2^a <= target_size / m < 2^(a+1)
RECURSIVE ExponentFrom(_, _)
ExponentFrom(m, a) ==
    IF m <= target_size
    THEN IF m * Pow2(a + 1) <= target_size THEN ExponentFrom(m, a + 1) ELSE a
    ELSE IF m > target_size * Pow2(-a) THEN ExponentFrom(m, a - 1) ELSE a

Exponent(m) == IF m <= target_size THEN ExponentFrom(m, 0) ELSE ExponentFrom(m, -1)

\* the rounding error e of the float64 quotient target_size / m, in the
\* unit 2^(a-52) / m:  scale = target_size / m + e * 2^(a-52) / m.  The 53-bit
\* significand is the quotient of target_size * 2^(52-a) by m rounded to
\* nearest, ties to even.
ScaleError(m) ==
    LET a == Exponent(m)
        rem2 == ((target_size % (2 * m)) * Pow2Mod(52 - a, 2 * m)) % (2 * m)
        rem == rem2 % m
        up == 2 * rem > m \/ (2 * rem = m /\ rem2 >= m)
    IN  IF up THEN m - rem ELSE -rem

\* the least power of two that is >= n, searched from the power p
RECURSIVE CeilPow2From(_, _)
CeilPow2From(n, p) == IF n > p THEN CeilPow2From(n, 2 * p) ELSE p

\* int(x * scale) for a side x of an image whose longer side is m.  The
\* exact product is x * target_size / m + x * e * 2^(a-52) / m; it is
\* rounded to a float64 below the integer n = x * target_size / m only when
\* the quotient is an integer, e < 0, and the second term exceeds half the
\* float64 spacing below n.
IntOfProduct(x, m) ==
    LET a == Exponent(m)
        e == ScaleError(m)
        n == (x * target_size) \div m
        f == (x * target_size) % m
    IN  IF f # 0 \/ e >= 0 \/ n = 0 THEN n
        ELSE IF x * (-e) * Pow2(a + 5) > m * 8 * CeilPow2From(n, 1)
             THEN n - 1
             ELSE n

\* cv2.GaussianBlur(img, (1, 1), 0) on a channel value: the kernel has one
\* tap of weight 1
GaussianBlur(v) == v

\* alpha and beta of line 211; alpha in hundredths
alpha == 95
beta == 5

\* cvRound of num / den, den even: to nearest, ties to even
cvRound(num, den) ==
    LET q == num \div den
        r == num % den
    IN  IF 2 * r > den \/ (2 * r = den /\ q % 2 = 1) THEN q + 1 ELSE q

\* saturate_cast<uchar>
saturate_cast(x) == IF x < 0 THEN 0 ELSE IF x > 255 THEN 255 ELSE x

\* faulty variant: the scaled value is truncated
convertScaleAbs_truncating(v) ==
    saturate_cast((alpha * v + 100 * beta) \div 100)

\* cv2.convertScaleAbs(img, alpha=0.95, beta=5) on a channel value v of
\* 0..255: saturate_cast<uchar>(|v * alpha + beta|); v * alpha + beta >= 0
convertScaleAbs(v) ==
    saturate_cast(cvRound(alpha * v + 100 * beta, 100))

\* faulty variant: the image is returned as it came
enhance_for_iphone_photos_off(v) == v

\* lines 205-213, on a channel value
enhance_for_iphone_photos(v) == convertScaleAbs(GaussianBlur(v))

\* An image is its width, its height and the value px of its channels (the
\* images of the model are of one colour; bilinear interpolation of equal
\* values gives that value).  The result of the letterbox: the size the
\* image is resized to, the paste offsets, whether cv2.resize accepted the
\* size (it raises cv2.error on an empty one), the shape of the canvas, and
\* the channel values of the canvas after the photometric correction:
\* inner for the pasted region, border for the padding.
optimize_image_for_yolo(im) ==
    LET w == im.w
        h == im.h
        longer == IF w >= h THEN w ELSE h
        new_w == IntOfProduct(w, longer)
        new_h == IntOfProduct(h, longer)
    IN  [ new_w |-> new_w,
          new_h |-> new_h,
          pad_w |-> (target_size - new_w) \div 2,
          pad_h |-> (target_size - new_h) \div 2,
          raised |-> new_w = 0 \/ new_h = 0,
          shape |-> << target_size, target_size, 3 >>,
          inner |-> enhance_for_iphone_photos(im.px),
          border |-> enhance_for_iphone_photos(pad_value) ]

----------------------------------------------------------------------------
(* The files the run reads *)

\* the source images: what Path.exists and cv2.imread give for a path
NoRecord == [none |-> TRUE]
NoImage == [w |-> 0, h |-> 0]      \* the None of cv2.imread

SourceImages ==
    [ photo |-> [w |-> 4032, h |-> 3024, px |-> 200],  \* a phone photograph
      sliver |-> [w |-> 1, h |-> 2000, px |-> 200],    \* decodes, one pixel wide
      corrupt |-> NoImage ]                  \* exists, does not decode

exists(path) == path \in DOMAIN SourceImages

imread(path) == SourceImages[path]
NoFiles == [k \in {} |-> << >>]
NoLabelFile == [lines |-> << >>, raised |-> FALSE, written |-> FALSE]

KnownBox == [label |-> "postkasse", x |-> 64, y |-> 128, width |-> 320, height |-> 160]
UnknownBox == [label |-> "hund", x |-> 0, y |-> 0, width |-> 640, height |-> 640]
UnlabelledBox == [x |-> 1, y |-> 1, width |-> 4, height |-> 4]

\* the records a manifest of the model holds at index k
PhotoRecords(k) ==
    { [id |-> k, label |-> "pakke"],
      [imagePath |-> "gone", id |-> k, label |-> "pakke"],
      [imagePath |-> "corrupt", id |-> k, label |-> "pakke"],
      [imagePath |-> "sliver", id |-> k, label |-> "pakke"],
      [imagePath |-> "photo", label |-> "pakke"],
      [imagePath |-> "photo", id |-> k, label |-> "pakke", boundingBoxes |-> << >>],
      [imagePath |-> "photo", id |-> k, label |-> "hund"],
      [imagePath |-> "photo", id |-> k, boundingBoxes |-> << KnownBox, UnknownBox >>],
      [imagePath |-> "photo", id |-> k, boundingBoxes |-> << KnownBox, UnlabelledBox >>] }

Splits == {"train", "val"}

\* the file f added to (or replacing that of) stem in the directory dir
WriteFile(dir, stem, f) ==
    [k \in DOMAIN dir \cup {stem} |-> IF k = stem THEN f ELSE dir[k]]

----------------------------------------------------------------------------
(* convert_app_data *)

\* faulty variant: the label directories are not created
setup_directories_images_only ==
    { "images/train", "images/val" }

\* setup_directories, called by __init__
setup_directories ==
    { "images/train", "images/val", "labels/train", "labels/val" }

\* faulty variant: the names are numbered from 1
yaml_content_names_from_one ==
    [ path |-> "output_path",
      train |-> "images/train",
      val |-> "images/val",
      nc |-> Len(target_classes),
      names |-> [k \in 1..Len(target_classes) |-> target_classes[k]] ]

\* the content of dataset.yaml, lines 246-265
yaml_content ==
    [ path |-> "output_path",
      train |-> "images/train",
      val |-> "images/val",
      nc |-> Len(target_classes),
      names |-> [k \in 0..(Len(target_classes) - 1) |-> target_classes[k + 1]] ]

\* the converter after AppDataToYOLO(app_data, output) on a fresh output
\* root, before any call
Constructed ==
    /\ i = 0
    /\ split = ""
    /\ img = NoImage
    /\ train_count = 0
    /\ val_count = 0
    /\ skipped_count = 0
    /\ dirs = setup_directories
    /\ images = [s \in Splits |-> {}]
    /\ labels = [s \in Splits |-> NoFiles]
    /\ dataset_yaml = {}
    /\ result = "none"
    /\ attempted = << >>
    /\ assigned = << >>
    /\ letterboxed = << >>

\* convert_app_data is about to run
Init ==
    /\ pc = "convert_app_data"
    /\ manifest \in {"missing", "malformed", "ok"}
    /\ nphotos \in 0..MaxPhotos
    /\ manifest # "ok" => nphotos = 0
    /\ photo_data = NoRecord
    /\ Constructed
    /\ label_file = NoLabelFile
    /\ detected_objects = << >>
    /\ score = -1

\* faulty variant: dataset.yaml is written before the manifest is looked at
LoadManifest_yaml_first ==
    /\ pc = "convert_app_data"
    /\ dataset_yaml' = {yaml_content}
    /\ IF manifest = "missing"
       THEN pc' = "done" /\ result' = "False"
       ELSE IF manifest = "malformed"
       THEN pc' = "raised" /\ result' = "JSONDecodeError"
       ELSE pc' = "create_dataset_yaml" /\ result' = result
    /\ UNCHANGED <<manifest, nphotos, i, photo_data, split, img, train_count,
                   val_count, skipped_count, dirs, images, labels,
                   attempted, assigned, label_file, detected_objects, score,
                   letterboxed>>

\* lines 101-111: the manifest is located and parsed
LoadManifest ==
    /\ pc = "convert_app_data"
    /\ IF manifest = "missing"
       THEN pc' = "done" /\ result' = "False"
       ELSE IF manifest = "malformed"
       THEN pc' = "raised" /\ result' = "JSONDecodeError"
       ELSE pc' = "create_dataset_yaml" /\ result' = result
    /\ UNCHANGED <<manifest, nphotos, i, photo_data, split, img, train_count,
                   val_count, skipped_count, dirs, images, labels, dataset_yaml,
                   attempted, assigned, label_file, detected_objects, score,
                   letterboxed>>

\* faulty variant: the descriptor is not written before the loop
CreateDatasetYaml_left_out ==
    /\ pc = "create_dataset_yaml"
    /\ train_count' = 0
    /\ val_count' = 0
    /\ skipped_count' = 0
    /\ pc' = "for"
    /\ UNCHANGED <<manifest, nphotos, i, photo_data, split, img, dirs, images,
                   labels, dataset_yaml, result, attempted, assigned,
                   label_file, detected_objects, score,
                   letterboxed>>

\* lines 114-119: create_dataset_yaml, then the counters are set to 0
CreateDatasetYaml ==
    /\ pc = "create_dataset_yaml"
    /\ dataset_yaml' = {yaml_content}
    /\ train_count' = 0
    /\ val_count' = 0
    /\ skipped_count' = 0
    /\ pc' = "for"
    /\ UNCHANGED <<manifest, nphotos, i, photo_data, split, img, dirs, images,
                   labels, result, attempted, assigned, label_file,
                   detected_objects, score,
                   letterboxed>>

\* faulty variant: the index counted from 1
is_val_one_based(idx) == (idx + 1) % 5 = 0

\* line 123
is_val(idx) == idx % 5 = 0

\* faulty variant: the records written so far are counted, not the index
enumerate_index_of_written == train_count + val_count

\* the index enumerate gives the record, line 121
enumerate_index == i

\* lines 129-135 with the result of process_photo, and the return of
\* process_photo: its frame is gone
Counted(success, isv) ==
    /\ IF success
       THEN IF isv
            THEN /\ val_count' = val_count + 1
                 /\ UNCHANGED <<train_count, skipped_count>>
            ELSE /\ train_count' = train_count + 1
                 /\ UNCHANGED <<val_count, skipped_count>>
       ELSE /\ skipped_count' = skipped_count + 1
            /\ UNCHANGED <<train_count, val_count>>
    /\ i' = i + 1
    /\ photo_data' = NoRecord
    /\ img' = NoImage
    /\ pc' = "for"
    /\ result' = result

\* lines 121-127 and 147-158: the next record is taken and process_photo
\* locates and decodes its image.  photo_data['imagePath'] stands before the
\* try block: its KeyError leaves process_photo and convert_app_data.
ForNext ==
    /\ pc = "for"
    /\ i < nphotos
    /\ \E rec \in PhotoRecords(i) :
         LET idx == enumerate_index
             isv == is_val(idx)
         IN  /\ split' = IF isv THEN "val" ELSE "train"
             /\ attempted' = Append(attempted, idx)
             /\ assigned' = Append(assigned, IF isv THEN "val" ELSE "train")
             /\ IF "imagePath" \notin DOMAIN rec
                THEN /\ pc' = "raised"
                     /\ result' = "KeyError"
                     /\ photo_data' = rec
                     /\ UNCHANGED <<i, img, train_count, val_count, skipped_count>>
                ELSE IF ~exists(rec.imagePath)
                THEN Counted(FALSE, isv)
                ELSE IF imread(rec.imagePath) = NoImage
                THEN Counted(FALSE, isv)
                ELSE /\ pc' = "imwrite"
                     /\ photo_data' = rec
                     /\ img' = imread(rec.imagePath)
                     /\ UNCHANGED <<i, result, train_count, val_count, skipped_count>>
    /\ UNCHANGED <<manifest, nphotos, dirs, images, labels, dataset_yaml,
                   label_file, detected_objects, score,
                   letterboxed>>

\* lines 161-166: the letterbox and cv2.imwrite; cv2.error of the resize and
\* KeyError of photo_data['id'] are caught by line 174
WriteImage ==
    /\ pc = "imwrite"
    /\ IF optimize_image_for_yolo(img).raised \/ "id" \notin DOMAIN photo_data
       THEN /\ Counted(FALSE, split = "val")
            /\ UNCHANGED images
       ELSE /\ images' = [images EXCEPT ![split] = @ \cup {photo_data.id}]
            /\ pc' = "create_yolo_label"
            /\ UNCHANGED <<i, photo_data, img, result, train_count, val_count,
                           skipped_count>>
    /\ UNCHANGED <<manifest, nphotos, split, dirs, labels, dataset_yaml,
                   attempted, assigned, label_file, detected_objects, score,
                   letterboxed>>

\* lines 169-176 and 129-135: the label file is written, process_photo
\* returns and the record is counted
WriteLabel ==
    /\ pc = "create_yolo_label"
    /\ LET r == create_yolo_label(photo_data, optimize_image_for_yolo(img).shape)
       IN  /\ labels' = [labels EXCEPT
                            ![split] = WriteFile(@, photo_data.id, r.lines)]
           /\ Counted(~r.raised, split = "val")
    /\ UNCHANGED <<manifest, nphotos, split, dirs, images, dataset_yaml,
                   attempted, assigned, label_file, detected_objects, score,
                   letterboxed>>

\* lines 137-143: the loop is exhausted
Finish ==
    /\ pc = "for"
    /\ i >= nphotos
    /\ pc' = "done"
    /\ result' = "True"
    /\ UNCHANGED <<manifest, nphotos, i, photo_data, split, img, train_count,
                   val_count, skipped_count, dirs, images, labels, dataset_yaml,
                   attempted, assigned, label_file, detected_objects, score,
                   letterboxed>>

Running == {"convert_app_data", "create_dataset_yaml", "for", "imwrite",
            "create_yolo_label"}

\* the process is stopped between two steps (a signal, KeyboardInterrupt:
\* neither is an Exception, so line 174 does not catch it)
Abort ==
    /\ pc \in Running
    /\ pc' = "aborted"
    /\ UNCHANGED <<manifest, nphotos, i, photo_data, split, img, train_count,
                   val_count, skipped_count, dirs, images, labels, dataset_yaml,
                   result, attempted, assigned, label_file, detected_objects,
                   score,
                   letterboxed>>

\* NorwegianPackageYOLOTrainer.__init__, lines 24-33 of
\* src/train_norwegian_package_detector.py: the class table of the trainer
norwegian_target_classes ==
    << "no_objects", "pakke", "postkasse", "etikett", "postkasseskilt",
       "pakke_i_postkasse", "pakke_ved_inngangsparti", "inngangsparti" >>

\* line 60 of the trainer
required_keys == << "path", "train", "val", "nc", "names" >>

\* validate_dataset of the trainer, lines 48-90, on a root that holds the
\* descriptors yamls (none or one) and the directories ds: what it returns
\* or raises.  yaml.safe_load gives the mapping of the descriptor; the file
\* counts are printed only.
validate_dataset(yamls, ds) ==
    IF yamls = {} THEN "FileNotFoundError"
    ELSE LET dataset_config == CHOOSE y \in yamls : TRUE
         IN  IF \E k \in 1..Len(required_keys) : required_keys[k] \notin DOMAIN dataset_config
             THEN "ValueError"
             ELSE IF \E d \in {"images/train", "labels/train", "images/val", "labels/val"} :
                        d \notin ds
             THEN "FileNotFoundError"
             ELSE "dataset_config"

\* the trainer is pointed at the output root of a run that returned True
ValidateDataset ==
    /\ pc = "done"
    /\ result = "True"
    /\ pc' = "validate_dataset"
    /\ result' = validate_dataset(dataset_yaml, dirs)
    /\ UNCHANGED <<manifest, nphotos, i, photo_data, split, img, train_count,
                   val_count, skipped_count, dirs, images, labels, dataset_yaml,
                   attempted, assigned, label_file, detected_objects, score,
                   letterboxed>>

Next ==
    \/ LoadManifest
    \/ CreateDatasetYaml
    \/ ForNext
    \/ WriteImage
    \/ WriteLabel
    \/ Finish
    \/ Abort
    \/ ValidateDataset

Spec == Init /\ [][Next]_vars

----------------------------------------------------------------------------
(* Calls of calculate_package_detection_score *)

\* the maps from class names to counts: any of the eight keys may be missing
CountMaps == UNION { [K -> 0..MaxCount] : K \in SUBSET Classes }

InitScore ==
    /\ pc = "calculate_package_detection_score"
    /\ detected_objects \in CountMaps
    /\ score = -1
    /\ manifest = "missing"
    /\ nphotos = 0
    /\ photo_data = NoRecord
    /\ Constructed
    /\ label_file = NoLabelFile

EvaluateScore ==
    /\ pc = "calculate_package_detection_score"
    /\ score' = calculate_package_detection_score(detected_objects)
    /\ pc' = "returned"
    /\ UNCHANGED <<photo_data, label_file, detected_objects, letterboxed>>
    /\ UNCHANGED convertVars

NextScore == EvaluateScore

SpecScore == InitScore /\ [][NextScore]_vars

----------------------------------------------------------------------------
(* Calls of create_yolo_label *)

Geometries ==
    { [x |-> 0, y |-> 0, width |-> 640, height |-> 640],
      [x |-> 64, y |-> 128, width |-> 320, height |-> 160],
      [x |-> 1, y |-> 1, width |-> 4, height |-> 4],
      [x |-> 600, y |-> 600, width |-> 200, height |-> 100] }

BoxLabels == {"pakke", "inngangsparti", "hund"}

Boxes ==
    { [label |-> l, x |-> g.x, y |-> g.y, width |-> g.width, height |-> g.height] :
        l \in BoxLabels, g \in Geometries }
    \cup Geometries

BoxLists == UNION { [1..n -> Boxes] : n \in 0..MaxBoxes }

PhotoLabels == {"pakke", "inngangsparti", "hund", None}

LabelRecords ==
    { [id |-> 0, label |-> l, boundingBoxes |-> b] : l \in PhotoLabels, b \in BoxLists }
    \cup { [id |-> 0, boundingBoxes |-> b] : b \in BoxLists }
    \cup { [id |-> 0, label |-> l] : l \in PhotoLabels }
    \cup { [id |-> 0] }

InitLabel ==
    /\ pc = "create_yolo_label"
    /\ photo_data \in LabelRecords
    /\ label_file = NoLabelFile
    /\ manifest = "missing"
    /\ nphotos = 0
    /\ Constructed
    /\ detected_objects = << >>
    /\ score = -1

\* one call on a 640 x 640 image: img_optimized.shape is (640, 640, 3)
EncodeLabel ==
    /\ pc = "create_yolo_label"
    /\ LET r == create_yolo_label(photo_data, << target_size, target_size, 3 >>)
       IN  label_file' = [lines |-> r.lines, raised |-> r.raised, written |-> TRUE]
    /\ pc' = IF label_file'.raised THEN "raised" ELSE "returned"
    /\ UNCHANGED <<photo_data, detected_objects, score,
                   letterboxed>>
    /\ UNCHANGED convertVars

NextLabel == EncodeLabel

SpecLabel == InitLabel /\ [][NextLabel]_vars

----------------------------------------------------------------------------
(* Properties of the conversion run, checked under Spec *)

\* the split rule of the specification's data model (SplitAssignment)
SplitOf(k) == IF k % 5 = 0 THEN "val" ELSE "train"

Handled == train_count + val_count + skipped_count

Ended == pc \in {"done", "raised"}

\* C1: the record at zero-based manifest index k is given the split 'val' if
\* k mod 5 = 0 and 'train' otherwise, whatever became of the records before
\* it: the k-th record handed to process_photo is the one at index k - 1,
\* its split is SplitOf(k - 1), and a file of the record with id k lies only
\* under the directories of that split.
C1_SplitByManifestIndex ==
    /\ \A k \in 1..Len(attempted) :
          /\ attempted[k] = k - 1
          /\ assigned[k] = SplitOf(k - 1)
    /\ \A s \in Splits :
          \A stem \in images[s] \cup DOMAIN labels[s] : s = SplitOf(stem)

\* C1 witness: the record at index 5 went to val although an earlier record
\* was skipped.
C1_Witness ==
    /\ skipped_count > 0
    /\ Len(assigned) = 6
    /\ assigned[6] = "val"
    /\ 5 \in images["val"]
    /\ 0 \notin images["val"]

\* C4 (as claimed): a failure confined to one record never interrupts the
\* batch: once the manifest is loaded the call ends by returning True with
\* every record handled, each counted as written or skipped.
C4_BatchNeverInterrupted ==
    (manifest = "ok" /\ Ended) =>
        /\ result = "True"
        /\ i = nphotos
        /\ Handled = nphotos

\* C6: when the run completes and no record was skipped, ceil(n/5) records
\* were written to val and n - ceil(n/5) to train, n being the length of the
\* manifest; the image directories hold as many files.
C6_SplitSizes ==
    (pc = "done" /\ result = "True" /\ skipped_count = 0) =>
        /\ val_count = (nphotos + 4) \div 5
        /\ train_count = nphotos - ((nphotos + 4) \div 5)
        /\ Cardinality(images["val"]) = (nphotos + 4) \div 5
        /\ Cardinality(images["train"]) = nphotos - ((nphotos + 4) \div 5)

\* C6 witness: a manifest of 6 processable records: 2 in val, 4 in train.
C6_Witness ==
    /\ pc = "done"
    /\ nphotos = 6
    /\ skipped_count = 0
    /\ val_count = 2
    /\ train_count = 4

\* C7 (as claimed): every record is attempted exactly once, in manifest
\* order, and each attempt increments exactly one of the three counters:
\* between two records and at the end the counters sum to the number of
\* attempts, and when the call has ended they sum to the manifest length.
C7_EveryAttemptCounted ==
    /\ \A k \in 1..Len(attempted) : attempted[k] = k - 1
    /\ (pc = "for" \/ Ended) => Handled = Len(attempted)
    /\ (manifest = "ok" /\ Ended) => Handled = nphotos

\* C8: when the manifest is missing or cannot be parsed, the call ends
\* (False, or the parser's exception) before any record is handed to
\* process_photo, and no image file, no label file and no dataset.yaml is
\* written under the output root.
C8_NoDatasetWithoutManifest ==
    manifest # "ok" =>
        /\ dataset_yaml = {}
        /\ \A s \in Splits : images[s] = {} /\ DOMAIN labels[s] = {}
        /\ attempted = << >>
        /\ pc \in {"convert_app_data", "done", "raised", "aborted"}
        /\ pc = "done" => result = "False"
        /\ pc = "raised" => result = "JSONDecodeError"

\* C8 witness: the call on an unparsable manifest has ended.
C8_Witness ==
    /\ manifest = "malformed"
    /\ pc = "raised"
    /\ result = "JSONDecodeError"

\* C10 (as claimed): when the call has ended, and also when it was stopped
\* between two steps, every image file of images/<split> has a label file of
\* the same stem in labels/<split> and every label file has its image.
C10_ImageAndLabelPaired ==
    (Ended \/ pc = "aborted") =>
        \A s \in Splits : images[s] = DOMAIN labels[s]

----------------------------------------------------------------------------
(* Properties of the score, checked under SpecScore *)

\* the 16 rows of the rule table of the specification (section 4.6): the
\* classes a rule needs present, and its value in hundredths
RuleTable ==
    << [need |-> {"no_objects"}, value |-> 0],
       [need |-> {"pakke", "postkasse", "etikett", "postkasseskilt"}, value |-> 100],
       [need |-> {"pakke_i_postkasse", "etikett", "postkasseskilt"}, value |-> 100],
       [need |-> {"pakke_ved_inngangsparti"}, value |-> 100],
       [need |-> {"pakke", "inngangsparti"}, value |-> 100],
       [need |-> {"etikett", "postkasseskilt"}, value |-> 80],
       [need |-> {"pakke", "postkasse", "postkasseskilt"}, value |-> 70],
       [need |-> {"pakke", "postkasseskilt"}, value |-> 60],
       [need |-> {"pakke", "postkasse", "etikett"}, value |-> 50],
       [need |-> {"inngangsparti"}, value |-> 50],
       [need |-> {"pakke", "postkasse"}, value |-> 25],
       [need |-> {"postkasse", "postkasseskilt"}, value |-> 25],
       [need |-> {"postkasseskilt"}, value |-> 20],
       [need |-> {"pakke"}, value |-> 10],
       [need |-> {"postkasse"}, value |-> 10],
       [need |-> {"etikett"}, value |-> 5] >>

\* the classes present in a count map: the key is there and its count > 0
Present(d) == { c \in Classes : c \in DOMAIN d /\ d[c] > 0 }

\* the rows whose predicate holds
Matching(d) == { r \in 1..Len(RuleTable) : RuleTable[r].need \subseteq Present(d) }

\* the value of the first matching row, 0 when there is none
TableScore(d) ==
    IF Matching(d) = {} THEN 0
    ELSE RuleTable[CHOOSE r \in Matching(d) : \A q \in Matching(d) : r <= q].value

\* C2: the score returned is the value of the first row of the rule table
\* whose predicate holds, 0 when none holds; and the three examples of the
\* specification give 1.0, 0.8 and 0.0.
C2_ScoreIsFirstMatchingRule ==
    /\ pc = "returned" => score = TableScore(detected_objects)
    /\ calculate_package_detection_score(
          [pakke |-> 1, postkasse |-> 1, etikett |-> 1, postkasseskilt |-> 1]) = 100
    /\ calculate_package_detection_score([etikett |-> 1, postkasseskilt |-> 1]) = 80
    /\ calculate_package_detection_score(<< >>) = 0

\* C2 witness: a call that several rows match (7, 8, 11, 12, 13, 14, 15)
\* returned the value of row 7.
C2_Witness ==
    /\ pc = "returned"
    /\ Present(detected_objects) = {"pakke", "postkasse", "postkasseskilt"}
    /\ score = 70

\* C3: when the count of no_objects is > 0 the score is 0.0, whatever the
\* other counts are.
C3_NoObjectsWins ==
    (/\ pc = "returned"
     /\ "no_objects" \in DOMAIN detected_objects
     /\ detected_objects["no_objects"] > 0) => score = 0

\* C3 witness: no_objects is present together with the four classes of
\* row 2 and with pakke_ved_inngangsparti, and the score is 0.
C3_Witness ==
    /\ pc = "returned"
    /\ {"no_objects", "pakke", "postkasse", "etikett", "postkasseskilt",
        "pakke_ved_inngangsparti"} \subseteq Present(detected_objects)
    /\ score = 0

----------------------------------------------------------------------------
(* Properties of the label file, checked under SpecLabel *)

\* the record has a non-empty boundingBoxes
BoxMode(pd) == "boundingBoxes" \in DOMAIN pd /\ Len(pd.boundingBoxes) > 0

\* the boxes before the first one that has no label
RECURSIVE Labelled(_)
Labelled(bbs) ==
    IF bbs = << >> \/ "label" \notin DOMAIN Head(bbs) THEN << >>
    ELSE << Head(bbs) >> \o Labelled(Tail(bbs))

IsKnown(bbox) == bbox.label \in Classes

\* C5 (as claimed): for a record without bounding boxes whose label is a
\* class of the table, the label file is exactly the one line
\* 'classId 0.500000 0.500000 1.000000 1.000000' and a newline.
C5_WholeImageLineSixDecimals ==
    (/\ label_file.written
     /\ ~BoxMode(photo_data)
     /\ "label" \in DOMAIN photo_data
     /\ photo_data.label \in Classes) =>
        FileText(label_file.lines) =
            IntStr(index(photo_data.label))
                \o " 0.500000 0.500000 1.000000 1.000000\n"

\* C9: for a record with a non-empty boundingBoxes the label file holds
\* exactly one line per box whose label is in the class table, in box order,
\* its class id the index of the label in the table, and nothing for a box
\* with an unknown label; the whole-image line is never among them, so the
\* file is empty when every box is unknown.  (The boxes that count are those
\* before the first box that has no label at all: there the call raises.)
C9_BoxModeLines ==
    (label_file.written /\ BoxMode(photo_data)) =>
        LET bbs == Labelled(photo_data.boundingBoxes)
            known == SelectSeq(bbs, IsKnown)
        IN  /\ label_file.raised <=> Len(bbs) < Len(photo_data.boundingBoxes)
            /\ Len(label_file.lines) = Len(known)
            /\ \A j \in 1..Len(known) :
                  /\ label_file.lines[j][1] = IntStr(index(known[j].label))
                  /\ label_file.lines[j] = BoxLine(known[j], target_size, target_size)
                  /\ SubSeq(label_file.lines[j], 2, 5) # << "0.5", "0.5", "1.0", "1.0" >>

\* C9 witness: two boxes, both with an unknown label, on a record whose own
\* label is a known class: the file is empty.
C9_Witness ==
    /\ label_file.written
    /\ ~label_file.raised
    /\ BoxMode(photo_data)
    /\ Len(photo_data.boundingBoxes) = 2
    /\ \A k \in 1..2 : /\ "label" \in DOMAIN photo_data.boundingBoxes[k]
                       /\ photo_data.boundingBoxes[k].label = "hund"
    /\ "label" \in DOMAIN photo_data
    /\ photo_data.label = "pakke"
    /\ label_file.lines = << >>

\* the texts '%.6f' gives the values k/1280 of [0, 1]: centres of integer
\* boxes are multiples of 1/1280 and extents multiples of 1/640
UnitFields == { Fmt6(n, 2 * target_size) : n \in 0..(2 * target_size) }

\* C11 (as claimed): every line written in box mode has its centre and its
\* extent, all four values, within [0, 1], the boxes having x, y >= 0 and
\* width, height > 0.
C11_BoxValuesInUnitInterval ==
    (/\ label_file.written
     /\ BoxMode(photo_data)
     /\ \A k \in 1..Len(photo_data.boundingBoxes) :
           LET bbox == photo_data.boundingBoxes[k]
           IN  bbox.x >= 0 /\ bbox.y >= 0 /\ bbox.width > 0 /\ bbox.height > 0) =>
        \A j \in 1..Len(label_file.lines) :
            \A f \in 2..5 : label_file.lines[j][f] \in UnitFields

\* the record has no label, or one that is null or no class of the table
NoKnownLabel(pd) == "label" \notin DOMAIN pd \/ pd.label \notin Classes

\* C12: for a record whose boundingBoxes is empty or absent and whose label
\* is absent, null or not in the class table, the call writes exactly one
\* line, the full frame (0.5 0.5 1.0 1.0) under class index 0, and raises
\* nothing.
C12_FallbackToClassZero ==
    (label_file.written /\ ~BoxMode(photo_data) /\ NoKnownLabel(photo_data)) =>
        /\ ~label_file.raised
        /\ label_file.lines = << << "0", "0.5", "0.5", "1.0", "1.0" >> >>

\* C12 witness: the label is not in the table and boundingBoxes is empty.
C12_Witness ==
    /\ label_file.written
    /\ "boundingBoxes" \in DOMAIN photo_data
    /\ photo_data.boundingBoxes = << >>
    /\ "label" \in DOMAIN photo_data
    /\ photo_data.label = "hund"
    /\ label_file.lines = << << "0", "0.5", "0.5", "1.0", "1.0" >> >>

----------------------------------------------------------------------------
(* The bands of the score, checked under SpecScore *)

\* C16 (as claimed): every score returned lies in one of the four bands the
\* generated dataset.yaml documents: exactly 1.0, 0.5 to 0.8, 0.1 to 0.25,
\* or exactly 0.0 (hundredths here).
C16_ScoreInDocumentedBands ==
    pc = "returned" =>
        \/ score = 100
        \/ (50 <= score /\ score <= 80)
        \/ (10 <= score /\ score <= 25)
        \/ score = 0

----------------------------------------------------------------------------
(* The descriptor and the label files, checked under Spec *)

\* the class a descriptor names for the class id a line starts with
\* (None when the field is no id of 0..nc-1)
NameOfField(y, field) ==
    IF \E c \in 0..(y.nc - 1) : IntStr(c) = field
    THEN y.names[CHOOSE c \in 0..(y.nc - 1) : IntStr(c) = field]
    ELSE None

\* the labels that produce the lines of a record's file, in line order: the
\* known labels of its boxes, or its own label, or the background class
\* when that label is absent, null or unknown
Producers(pd) ==
    IF BoxMode(pd)
    THEN LET known == SelectSeq(Labelled(pd.boundingBoxes), IsKnown)
         IN  [j \in 1..Len(known) |-> known[j].label]
    ELSE IF NoKnownLabel(pd) THEN << target_classes[1] >> ELSE << pd.label >>

\* C13: the descriptor has nc equal to the length of the class table and
\* names[i] equal to the i-th class of the table; and whenever a label file
\* is written the descriptor is there, every class id of the file is in
\* 0..nc-1, and the name the descriptor gives that id is the label that
\* produced the line (the background class for the fallback).
C13_DescriptorMatchesLabelEncoding ==
    /\ [](\A y \in dataset_yaml :
             /\ y.nc = Len(target_classes)
             /\ DOMAIN y.names = 0..(y.nc - 1)
             /\ \A k \in 1..Len(target_classes) : y.names[k - 1] = target_classes[k])
    /\ [][(pc = "create_yolo_label" /\ pc' = "for") =>
            /\ dataset_yaml' # {}
            /\ \A y \in dataset_yaml' :
                  LET file == labels'[split][photo_data.id]
                      from == Producers(photo_data)
                  IN  /\ Len(file) = Len(from)
                      /\ \A j \in 1..Len(file) :
                            NameOfField(y, file[j][1]) = from[j]]_vars

\* C13 witness: the run is over with the descriptor written, a whole-image
\* line of class 1, a box line of class 2 and a fallback line of class 0 in
\* the label files.
C13_Witness ==
    /\ pc = "done"
    /\ dataset_yaml = {yaml_content}
    /\ \E a, b, c \in DOMAIN labels["train"] :
          /\ labels["train"][a] = << << "1", "0.5", "0.5", "1.0", "1.0" >> >>
          /\ labels["train"][b] = << BoxLine(KnownBox, target_size, target_size) >>
          /\ labels["train"][c] = << << "0", "0.5", "0.5", "1.0", "1.0" >> >>

\* C18 (as claimed): dataset.yaml is written only after every record has
\* been processed, so a run stopped while records are being processed
\* leaves no descriptor.
C18_DescriptorEmittedLast ==
    /\ dataset_yaml # {} => (i = nphotos /\ pc \in {"for", "done", "aborted"})
    /\ (pc = "aborted" /\ i < nphotos) => dataset_yaml = {}

\* C18 (amended): dataset.yaml is written first, right after the manifest is
\* parsed and before any record is processed: whenever the loop runs, a
\* record has been handed to process_photo, or an image or label file
\* exists, the descriptor is already there, also in a run that is stopped or
\* raises while records are being processed; and it is written only for a
\* manifest that parsed.
C18_DescriptorEmittedFirst ==
    /\ (\/ pc \in {"for", "imwrite", "create_yolo_label"}
        \/ attempted # << >>
        \/ \E s \in Splits : images[s] # {} \/ DOMAIN labels[s] # {}
        \/ (manifest = "ok" /\ pc = "done")) => dataset_yaml = {yaml_content}
    /\ dataset_yaml # {} => manifest = "ok"

\* C18 witness: the run was stopped with records still to process, and the
\* descriptor is there.
C18_Witness ==
    /\ pc = "aborted"
    /\ attempted # << >>
    /\ i < nphotos
    /\ dataset_yaml = {yaml_content}

----------------------------------------------------------------------------
(* Calls of optimize_image_for_yolo *)

\* widths and heights of the decoded images
ImageDims == {1, 2, 3, 77, 480, 640, 641, 1280, 2000, 3024, 4032}

\* the decoded images: every size, every channel value
DecodedImages ==
    { [w |-> a, h |-> b, px |-> v] : a \in ImageDims, b \in ImageDims, v \in 0..255 }

InitLetterbox ==
    /\ pc = "optimize_image_for_yolo"
    /\ img \in DecodedImages
    /\ letterboxed = << >>
    /\ manifest = "missing"
    /\ nphotos = 0
    /\ photo_data = NoRecord
    /\ label_file = NoLabelFile
    /\ detected_objects = << >>
    /\ score = -1
    /\ i = 0
    /\ split = ""
    /\ train_count = 0
    /\ val_count = 0
    /\ skipped_count = 0
    /\ dirs = setup_directories
    /\ images = [s \in Splits |-> {}]
    /\ labels = [s \in Splits |-> NoFiles]
    /\ dataset_yaml = {}
    /\ result = "none"
    /\ attempted = << >>
    /\ assigned = << >>

\* the canvas a call returned, as an image: it is of one colour when the
\* pasted region covers it
Covered(r) == ~r.raised /\ r.new_w = r.shape[2] /\ r.new_h = r.shape[1]

AsImage(r) == [w |-> r.shape[2], h |-> r.shape[1], px |-> r.inner]

\* optimize_image_for_yolo(img)
Letterbox ==
    /\ pc = "optimize_image_for_yolo"
    /\ letterboxed' = << optimize_image_for_yolo(img) >>
    /\ pc' = IF letterboxed'[1].raised THEN "raised" ELSE "returned"
    /\ UNCHANGED <<photo_data, label_file, detected_objects, score>>
    /\ UNCHANGED convertVars

\* optimize_image_for_yolo on the image the first call returned
LetterboxAgain ==
    /\ pc = "returned"
    /\ Len(letterboxed) = 1
    /\ Covered(letterboxed[1])
    /\ letterboxed' = Append(letterboxed, optimize_image_for_yolo(AsImage(letterboxed[1])))
    /\ pc' = IF letterboxed'[2].raised THEN "raised" ELSE "returned"
    /\ UNCHANGED <<photo_data, label_file, detected_objects, score>>
    /\ UNCHANGED convertVars

NextLetterbox ==
    \/ Letterbox
    \/ LetterboxAgain

SpecLetterbox == InitLetterbox /\ [][NextLetterbox]_vars

----------------------------------------------------------------------------
(* Properties of the letterbox, checked under SpecLetterbox *)

\* C14 (as claimed): for every decoded image of width and height >= 1 the
\* call returns a 640 x 640 canvas: the resized size has
\* 1 <= new_w, new_h <= 640, both offsets are >= 0, the pasted region lies
\* inside the canvas, and the call does not raise.
C14_EveryImageLetterboxed ==
    (Len(letterboxed) >= 1 /\ img.w >= 1 /\ img.h >= 1) =>
        LET r == letterboxed[1]
        IN  /\ ~r.raised
            /\ 1 <= r.new_w /\ r.new_w <= target_size
            /\ 1 <= r.new_h /\ r.new_h <= target_size
            /\ r.pad_w >= 0 /\ r.pad_h >= 0
            /\ r.pad_w + r.new_w <= target_size
            /\ r.pad_h + r.new_h <= target_size
            /\ r.shape = << target_size, target_size, 3 >>

\* x is an integer nearest to num / den
Nearest(x, num, den) ==
    /\ 2 * (x * den - num) <= den
    /\ 2 * (num - x * den) <= den

\* C17 (as claimed): the resized size is the rounding to nearest of the
\* exact products: new_w = round(W * scale), new_h = round(H * scale) with
\* scale = min(640/W, 640/H) = 640 / max(W, H).
C17_ResizeRoundsToNearest ==
    Len(letterboxed) >= 1 =>
        LET r == letterboxed[1]
            longer == IF img.w >= img.h THEN img.w ELSE img.h
        IN  /\ Nearest(r.new_w, img.w * target_size, longer)
            /\ Nearest(r.new_h, img.h * target_size, longer)

\* the call number k left the 640 x 640 image as it was laid out: resized
\* to 640 x 640, pasted at offset 0, no padding
SameGeometry(r) ==
    /\ ~r.raised
    /\ r.new_w = target_size /\ r.new_h = target_size
    /\ r.pad_w = 0 /\ r.pad_h = 0
    /\ r.shape = << target_size, target_size, 3 >>

OnTargetSize == img.w = target_size /\ img.h = target_size

\* C15 (as claimed): on an image that is already 640 x 640 the scale is 1,
\* the resized size is 640 x 640, both offsets are 0, and a second
\* application returns the same image as the first.
C15_IdempotentOnTargetSize ==
    (OnTargetSize /\ Len(letterboxed) >= 1) =>
        /\ Exponent(img.w) = 0 /\ ScaleError(img.w) = 0
        /\ SameGeometry(letterboxed[1])
        /\ Len(letterboxed) = 2 => letterboxed[2] = letterboxed[1]

\* C15 (amended): on an image that is already 640 x 640 every application
\* has scale 1, resized size 640 x 640 and both offsets 0, so no padding is
\* added; but the channel values are corrected again at each application:
\* the second application maps the value u of the first result to the
\* nearest integer of 0.95 u + 5, which is above u for u < 90 and below u for
\* u > 110, so the two results can be equal only for u in 90..110.
C15_IdempotentInGeometryOnly ==
    (OnTargetSize /\ Len(letterboxed) >= 1) =>
        /\ Exponent(img.w) = 0 /\ ScaleError(img.w) = 0
        /\ \A k \in 1..Len(letterboxed) : SameGeometry(letterboxed[k])
        /\ Len(letterboxed) = 2 =>
              LET u == letterboxed[1].inner
                  t == letterboxed[2].inner
              IN  /\ Nearest(t, 95 * u + 500, 100)
                  /\ u < 90 => t > u
                  /\ u > 110 => t < u
                  /\ letterboxed[2] = letterboxed[1] => (90 <= u /\ u <= 110)

\* C15 witness: a black 640 x 640 image: 5 after the first application, 10
\* after the second, the geometry untouched.
C15_Witness ==
    /\ OnTargetSize
    /\ img.px = 0
    /\ Len(letterboxed) = 2
    /\ SameGeometry(letterboxed[2])
    /\ letterboxed[1].inner = 5
    /\ letterboxed[2].inner = 10

\* C19: the correction maps every channel value v of the canvas, the padding
\* included, to the integer nearest to 0.95 v + 5 clamped to 0..255; the
\* result lies in 5..247, so the clamp changes nothing; the map is
\* non-decreasing; and the padding, filled with 114, leaves as 113.
C19_PhotometricMap ==
    Len(letterboxed) >= 1 =>
        LET r == letterboxed[1]
            v == img.px
        IN  /\ Nearest(r.inner, 95 * v + 500, 100)
            /\ 5 <= r.inner /\ r.inner <= 247
            /\ cvRound(95 * v + 500, 100) = r.inner
            /\ \A u \in 0..v : enhance_for_iphone_photos(u) <= r.inner
            /\ v > 0 => enhance_for_iphone_photos(v - 1) >= r.inner - 1
            /\ Nearest(r.border, 95 * 114 + 500, 100)
            /\ r.border = 113
            /\ r.border # pad_value

\* C19 witness: a white photograph, letterboxed with padding above and
\* below: 255 became 247 and the padding 113.
C19_Witness ==
    /\ Len(letterboxed) = 1
    /\ ~letterboxed[1].raised
    /\ img.px = 255
    /\ letterboxed[1].inner = 247
    /\ letterboxed[1].pad_h > 0
    /\ letterboxed[1].border = 113

----------------------------------------------------------------------------
(* CustomYOLOTrainer._process_photos, src/train_custom_yolo.py *)

\* self.target_classes after prepare_dataset: the 'classes' of the manifest
trainer_target_classes == << "pakke", "postkasse", "inngangsparti" >>

\* _get_class_id: list.index, None for ValueError
get_class_id(class_name) ==
    IF \E k \in 1..Len(trainer_target_classes) : trainer_target_classes[k] = class_name
    THEN (CHOOSE k \in 1..Len(trainer_target_classes) :
            /\ trainer_target_classes[k] = class_name
            /\ \A j \in 1..(k - 1) : trainer_target_classes[j] # class_name) - 1
    ELSE -1

\* str of the float n2 / 2
HalfStr(n2) == IntStr(n2 \div 2) \o (IF n2 % 2 = 0 THEN ".0" ELSE ".5")

\* the fields of the line of one box, lines 91-93: the centre is not
\* divided by the image size, width and height are printed as they are
TrainerBoxLine(bbox) ==
    << IntStr(get_class_id(bbox.label)),
       HalfStr(2 * bbox.x + bbox.width),
       HalfStr(2 * bbox.y + bbox.height),
       IntStr(bbox.width),
       IntStr(bbox.height) >>

\* the for loop of line 87 from box k on: yolo_labels, and whether
\* bbox['label'] raised KeyError
RECURSIVE TrainerBoxLoop(_, _)
TrainerBoxLoop(bbs, k) ==
    IF k > Len(bbs) THEN [lines |-> << >>, raised |-> FALSE]
    ELSE IF "label" \notin DOMAIN bbs[k] THEN [lines |-> << >>, raised |-> TRUE]
    ELSE LET tail == TrainerBoxLoop(bbs, k + 1)
         IN  IF get_class_id(bbs[k].label) # -1
             THEN [lines |-> << TrainerBoxLine(bbs[k]) >> \o tail.lines,
                   raised |-> tail.raised]
             ELSE tail

\* lines 86-99: yolo_labels of one photo, and whether the body raised
\* (KeyError of bbox['label'] or of photo['label'])
yolo_labels(photo) ==
    LET loop == TrainerBoxLoop(get(photo, "boundingBoxes", << >>), 1)
    IN  IF loop.raised THEN [lines |-> << >>, raised |-> TRUE]
        ELSE IF loop.lines # << >> THEN loop
        ELSE IF "label" \notin DOMAIN photo THEN [lines |-> << >>, raised |-> TRUE]
        ELSE IF get_class_id(photo.label) # -1
        THEN [lines |-> << << IntStr(get_class_id(photo.label)),
                              "0.5", "0.5", "1.0", "1.0" >> >>,
              raised |-> FALSE]
        ELSE [lines |-> << >>, raised |-> FALSE]

TrainerPhotos ==
    { r @@ [imagePath |-> p] : r \in LabelRecords, p \in {"photo", "gone"} }
    \cup { [label |-> "pakke"] }

InitTrainer ==
    /\ pc = "_process_photos"
    /\ photo_data \in TrainerPhotos
    /\ label_file = NoLabelFile
    /\ manifest = "ok"
    /\ nphotos = 1
    /\ Constructed
    /\ detected_objects = << >>
    /\ score = -1

\* the body of the loop of line 73 for one photo of the training split:
\* the image is copied and the label file written when yolo_labels is not
\* empty
ProcessPhotos ==
    /\ pc = "_process_photos"
    /\ IF "imagePath" \notin DOMAIN photo_data
       THEN /\ pc' = "raised"
            /\ UNCHANGED <<images, label_file>>
       ELSE IF ~exists(photo_data.imagePath)
       THEN /\ pc' = "continue"
            /\ UNCHANGED <<images, label_file>>
       ELSE LET r == yolo_labels(photo_data)
            IN  /\ images' = [images EXCEPT !["train"] = @ \cup {photo_data.imagePath}]
                /\ label_file' = [lines |-> r.lines, raised |-> r.raised,
                                  written |-> ~r.raised /\ r.lines # << >>]
                /\ pc' = IF r.raised THEN "raised" ELSE "returned"
    /\ UNCHANGED <<manifest, nphotos, i, photo_data, split, img, train_count,
                   val_count, skipped_count, dirs, labels, dataset_yaml,
                   result, attempted, assigned, detected_objects, score,
                   letterboxed>>

NextTrainer == ProcessPhotos

SpecTrainer == InitTrainer /\ [][NextTrainer]_vars

\* C20 (as claimed): the whole-image line 'classId 0.5 0.5 1.0 1.0' is
\* created only for a photo without bounding boxes: the label file of a
\* photo whose boundingBoxes is not empty never holds it, also when every
\* box has an unknown label.
C20_WholeImageOnlyWithoutBoxes ==
    (pc = "returned" /\ BoxMode(photo_data)) =>
        \A j \in 1..Len(label_file.lines) :
            SubSeq(label_file.lines[j], 2, 5) # << "0.5", "0.5", "1.0", "1.0" >>

----------------------------------------------------------------------------
(* The files and the counters of the run, checked under Spec *)

\* C21 (as claimed): a record counted as skipped leaves no file: between two
\* records and at the end of a run (the ids of the manifest are unique)
\* images/train and labels/train hold train_count files each and images/val
\* and labels/val hold val_count files each.
C21_SkippedLeavesNothing ==
    (manifest = "ok" /\ (pc = "for" \/ pc = "done")) =>
        /\ Cardinality(images["train"]) = train_count
        /\ Cardinality(images["val"]) = val_count
        /\ Cardinality(DOMAIN labels["train"]) = train_count
        /\ Cardinality(DOMAIN labels["val"]) = val_count

----------------------------------------------------------------------------
(* Relations between calls of the score, checked under SpecScore *)

\* the count map d with the count of class c set to n
WithCount(d, c, n) == [k \in DOMAIN d \cup {c} |-> IF k = c THEN n ELSE d[k]]

\* C22: with no_objects absent the score is monotone in the set of present
\* classes: when a class other than no_objects that is not present (its key
\* is missing or its count is 0) is given a positive count and the other
\* counts are kept, the score is not lower than before.
C22_MonotoneInPresentClasses ==
    (pc = "returned" /\ "no_objects" \notin Present(detected_objects)) =>
        \A c \in (Classes \ {"no_objects"}) \ Present(detected_objects) :
            \A n \in 1..MaxCount :
                calculate_package_detection_score(WithCount(detected_objects, c, n))
                    >= score

\* C22 witness: pakke alone scores 0.1; with inngangsparti made present the
\* score is 1.0, and with etikett made present it stays 0.1.
C22_Witness ==
    /\ pc = "returned"
    /\ Present(detected_objects) = {"pakke"}
    /\ score = 10
    /\ calculate_package_detection_score(
          WithCount(detected_objects, "inngangsparti", 1)) = 100
    /\ calculate_package_detection_score(
          WithCount(detected_objects, "etikett", 1)) = 10

\* the count map that has exactly the classes of S, each with count 1
OnesOn(S) == [c \in S |-> 1]

\* C23: the score depends only on which of the eight classes have a count
\* > 0: a count map scores as the map with count 1 on its present classes
\* does (so two maps with the same present classes score alike, whatever
\* the positive counts and the keys with count 0 are), a key outside the
\* eight classes changes nothing whatever its count, and the call changes
\* neither the count map nor the state of the converter.
C23_ScoreDependsOnPresentClassesOnly ==
    /\ [](pc = "returned" =>
            /\ score = calculate_package_detection_score(OnesOn(Present(detected_objects)))
            /\ \A n \in 0..MaxCount :
                  /\ calculate_package_detection_score(
                        WithCount(detected_objects, "hund", n)) = score
                  /\ calculate_package_detection_score(
                        WithCount(WithCount(detected_objects, "hund", n), "", n)) = score)
    /\ [][(pc = "calculate_package_detection_score" /\ pc' = "returned") =>
            /\ detected_objects' = detected_objects
            /\ UNCHANGED convertVars
            /\ UNCHANGED <<photo_data, label_file, letterboxed>>]_vars

\* C23 witness: two pakke, one postkasseskilt and a key etikett with count 0
\* score 0.6, as one pakke and one postkasseskilt do.
C23_Witness ==
    /\ pc = "returned"
    /\ DOMAIN detected_objects = {"pakke", "postkasseskilt", "etikett"}
    /\ detected_objects["pakke"] = 2
    /\ detected_objects["postkasseskilt"] = 1
    /\ detected_objects["etikett"] = 0
    /\ score = 60
    /\ calculate_package_detection_score([pakke |-> 1, postkasseskilt |-> 1]) = 60

----------------------------------------------------------------------------
(* The result of the run, checked under Spec *)

\* C24 (as claimed): convert_app_data returns False exactly when the
\* manifest does not exist, and once the manifest exists and parses the
\* call ends by returning True whatever happened in the loop: with an empty
\* list of photos, with every record skipped, with any record.
C24_TrueOnceManifestParses ==
    /\ result = "False" <=> (manifest = "missing" /\ pc = "done")
    /\ (manifest = "ok" /\ Ended) => (pc = "done" /\ result = "True")

----------------------------------------------------------------------------
(* The trainer on the output of the run, checked under Spec *)

\* C25: the output of a run that returned True passes validate_dataset of
\* the trainer on the same root: dataset.yaml exists and has the keys path,
\* train, val, nc and names, the directories images/train, labels/train,
\* images/val and labels/val exist, so the call returns the descriptor; and
\* nc is the length of the trainer's class table and names lists the
\* classes in the trainer's order.
C25_OutputPassesValidateDataset ==
    /\ (pc = "done" /\ result = "True") =>
          /\ dataset_yaml # {}
          /\ \A y \in dataset_yaml :
                /\ {"path", "train", "val", "nc", "names"} \subseteq DOMAIN y
                /\ y.nc = Len(norwegian_target_classes)
                /\ DOMAIN y.names = 0..(Len(norwegian_target_classes) - 1)
                /\ \A k \in 1..Len(norwegian_target_classes) :
                      y.names[k - 1] = norwegian_target_classes[k]
          /\ {"images/train", "labels/train", "images/val", "labels/val"} \subseteq dirs
    /\ pc = "validate_dataset" => result = "dataset_config"

\* C25 witness: validate_dataset returned the descriptor for the output of a
\* run in which records were written and records were skipped.
C25_Witness ==
    /\ pc = "validate_dataset"
    /\ result = "dataset_config"
    /\ skipped_count > 0
    /\ train_count > 0
    /\ val_count > 0

\* the branches taken by the count maps that hold 1 for each class of a
\* set S of classes and nothing else; the evaluation starts from each of them
TakenBranches ==
    { taken_branch(OnesOn(S)) :
        S \in { T \in SUBSET Classes : OnesOn(T) \in [T -> 0..MaxCount] } }

\* C26: no rule of the scoring decision list is dead: for each of the 16
\* branches of calculate_package_detection_score there is a count map for
\* which that branch is the first one whose predicate holds; and in every
\* evaluation the branch that returns is the first row whose predicate
\* holds and the score returned is that row's value.
C26_NoDeadRule ==
    /\ 1..Len(RuleTable) \subseteq TakenBranches
    /\ pc = "returned" =>
           LET b == taken_branch(detected_objects)
               M == Matching(detected_objects)
           IN  /\ b \in 1..(Len(RuleTable) + 1)
               /\ (b > Len(RuleTable)) <=> (M = {})
               /\ (b > Len(RuleTable)) => score = 0
               /\ (b <= Len(RuleTable)) =>
                      /\ b \in M
                      /\ \A q \in M : b <= q
                      /\ score = RuleTable[b].value

\* an evaluation where only postkasse and postkasseskilt are present: the
\* ten rows before the row postkasse-and-postkasseskilt do not hold, the
\* three after it do, and its branch is the one that returned 0.25
C26_Witness ==
    /\ pc = "returned"
    /\ Present(detected_objects) = {"postkasse", "postkasseskilt"}
    /\ taken_branch(detected_objects) = 12
    /\ Matching(detected_objects) = {12, 13, 15}
    /\ score = 25

====
